---- MODULE Spec2Model ----
(***************************************************************************)
(* The self-update subsystem of coder-cli: updater.Run and the archive     *)
(* helpers it calls (makeDownloadURL, extractFromArchive, ...).            *)
(*                                                                         *)
(* Strings that the code parses or formats (version strings, URL           *)
(* extension) are sequences of one-character strings; byte slices are      *)
(* sequences of small naturals.                                            *)
(***************************************************************************)
EXTENDS Integers, Sequences, FiniteSets, TLC

(***************************************************************************)
(* Bounds of the model.                                                    *)
(***************************************************************************)
\* capacity of a bufio.Writer made by bufio.NewWriter (4096 in the Go
\* runtime), scaled down
BufSize == 2
\* the longest entry content of an archive, chosen above BufSize
MaxLen == 3
\* the cap on an entry's decompressed size, in bytes (stands for 100 MiB)
SizeCap == 2

(***************************************************************************)
(* Generic helpers.                                                        *)
(***************************************************************************)
RECURSIVE BitAnd(_, _)
\* bitwise and of two naturals (Go's & on permission bits)
BitAnd(a, b) ==
    IF a = 0 \/ b = 0 THEN 0
    ELSE (a % 2) * (b % 2) + 2 * BitAnd(a \div 2, b \div 2)

\* bitwise and-not of two naturals (perm &^ umask)
BitClear(a, b) == a - BitAnd(a, b)

RECURSIVE IndexRune(_, _)
\* strings.IndexRune: 1-based index of the first c in s, 0 when absent
IndexRune(s, c) ==
    IF s = <<>> THEN 0
    ELSE IF Head(s) = c THEN 1
    ELSE LET r == IndexRune(Tail(s), c) IN IF r = 0 THEN 0 ELSE r + 1

Digits == <<"0", "1", "2", "3", "4", "5", "6", "7", "8", "9">>

DigitVal(c) == IndexRune(Digits, c) - 1

\* containsOnly(s, numbers) of the semver package
ContainsOnlyNumbers(s) == \A i \in 1..Len(s) : IndexRune(Digits, s[i]) # 0

\* hasLeadingZeroes of the semver package
HasLeadingZeroes(s) == Len(s) > 1 /\ s[1] = "0"

RECURSIVE ParseUint(_)
\* strconv.ParseUint(s, 10, 64) on a non-empty string of digits
ParseUint(s) ==
    IF s = <<>> THEN 0
    ELSE 10 * ParseUint(SubSeq(s, 1, Len(s) - 1)) + DigitVal(s[Len(s)])

RECURSIVE FormatUint(_)
\* fmt's %d of a natural
FormatUint(n) ==
    IF n < 10 THEN <<Digits[n + 1]>>
    ELSE FormatUint(n \div 10) \o <<Digits[(n % 10) + 1]>>

(***************************************************************************)
(* Semantic versions (github.com/blang/semver/v4 as used by Run).          *)
(***************************************************************************)
\* a numeric version component: non-empty, digits only, no leading zero
NumericOK(s) == s # <<>> /\ ContainsOnlyNumbers(s) /\ ~HasLeadingZeroes(s)

\* a pre-release or build identifier list: non-empty, no empty identifier
\* (two dots in a row, or a dot at either end), no "+" or "-" inside
IdentsOK(s) ==
    /\ s # <<>>
    /\ s[1] # "." /\ s[Len(s)] # "."
    /\ \A i \in 1..Len(s) : s[i] \notin {"+"}
    /\ \A i \in 1..(Len(s) - 1) : ~(s[i] = "." /\ s[i + 1] = ".")

VersionErr == [ok |-> FALSE, major |-> 0, minor |-> 0, patch |-> 0, pre |-> <<>>, build |-> <<>>]

\* semver.Make(s): Major.Minor.Patch[-pre][+build]
Make(s) ==
    LET d1 == IndexRune(s, ".") IN
    IF s = <<>> \/ d1 = 0 THEN VersionErr
    ELSE
    LET p0 == SubSeq(s, 1, d1 - 1)
        r1 == SubSeq(s, d1 + 1, Len(s))
        d2 == IndexRune(r1, ".")
    IN
    IF d2 = 0 THEN VersionErr
    ELSE
    LET p1 == SubSeq(r1, 1, d2 - 1)
        p2 == SubSeq(r1, d2 + 1, Len(r1))
        bi == IndexRune(p2, "+")
        build == IF bi = 0 THEN <<>> ELSE SubSeq(p2, bi + 1, Len(p2))
        q2 == IF bi = 0 THEN p2 ELSE SubSeq(p2, 1, bi - 1)
        pi == IndexRune(q2, "-")
        pre == IF pi = 0 THEN <<>> ELSE SubSeq(q2, pi + 1, Len(q2))
        patchStr == IF pi = 0 THEN q2 ELSE SubSeq(q2, 1, pi - 1)
    IN
    IF /\ NumericOK(p0) /\ NumericOK(p1) /\ NumericOK(patchStr)
       /\ (pi # 0 => IdentsOK(pre))
       /\ (bi # 0 => IdentsOK(build))
    THEN [ok |-> TRUE, major |-> ParseUint(p0), minor |-> ParseUint(p1),
          patch |-> ParseUint(patchStr), pre |-> pre, build |-> build]
    ELSE VersionErr

\* Version.Compare(o) = 0: build metadata is ignored
CompareIsZero(v, o) ==
    /\ v.major = o.major /\ v.minor = o.minor /\ v.patch = o.patch
    /\ v.pre = o.pre

\* Version.FinalizeVersion(): major.minor.patch without pre-release and build
FinalizeVersion(v) ==
    FormatUint(v.major) \o <<".">> \o FormatUint(v.minor) \o <<".">> \o FormatUint(v.patch)

(***************************************************************************)
(* makeDownloadURL.  The result is the sequence of the template's pieces.  *)
(***************************************************************************)
UrlPrefix == "https://github.com/cdr/coder-cli/releases/download/v"

Ext(ostype) ==
    IF ostype = "linux" THEN <<"t", "a", "r", ".", "g", "z">>
    ELSE <<".", "z", "i", "p">>

\* fmt.Sprintf(".../v%s/coder-cli-%s-%s.%s", version, ostype, archtype, ext)
makeDownloadURL(version, ostype, archtype) ==
    <<UrlPrefix>> \o version \o <<"/coder-cli-", ostype, "-", archtype>>
        \o <<".">> \o Ext(ostype)

(***************************************************************************)
(* bufio.Writer over an underlying writer.  buf is what the writer holds,  *)
(* out is what has reached the underlying writer, err whether the          *)
(* underlying writer failed.                                               *)
(***************************************************************************)
NewWriter == [buf |-> <<>>, out |-> <<>>, err |-> FALSE]

\* (*bufio.Writer).Flush; accept is the number of bytes the underlying
\* writer takes (fewer than offered: it fails)
Flush(w, accept) ==
    IF w.err THEN w
    ELSE IF accept >= Len(w.buf)
    THEN [buf |-> <<>>, out |-> w.out \o w.buf, err |-> FALSE]
    ELSE [buf |-> SubSeq(w.buf, accept + 1, Len(w.buf)),
          out |-> w.out \o SubSeq(w.buf, 1, accept), err |-> TRUE]

RECURSIVE Write(_, _, _)
\* (*bufio.Writer).Write(p): while p does not fit, either pass p straight
\* to the underlying writer (empty buffer) or fill the buffer and flush;
\* what then fits stays in the buffer until a Flush.
Write(w, p, accept) ==
    IF w.err THEN w
    ELSE IF Len(p) > BufSize - Len(w.buf)
    THEN IF Len(w.buf) = 0
         THEN IF accept >= Len(p)
              THEN [w EXCEPT !.out = w.out \o p]
              ELSE [w EXCEPT !.out = w.out \o SubSeq(p, 1, accept), !.err = TRUE]
         ELSE LET n == BufSize - Len(w.buf)
                  full == [w EXCEPT !.buf = w.buf \o SubSeq(p, 1, n)]
              IN Write(Flush(full, accept), SubSeq(p, n + 1, Len(p)), accept - BufSize)
    ELSE [w EXCEPT !.buf = w.buf \o p]

\* a ReadFrom that always goes through the buffer and is never flushed
ReadFromThroughBuffer(w, data) == Write(w, data, Len(data))

\* (*bufio.Writer).ReadFrom(r) over a *bytes.Buffer (an io.ReaderFrom):
\* with nothing buffered the read is handed to the underlying writer, which
\* takes all of r; otherwise r goes through the buffer.
ReadFrom(w, data) ==
    IF Len(w.buf) = 0
    THEN [w EXCEPT !.out = w.out \o data]
    ELSE Write(w, data, Len(w.buf) + Len(data))

(***************************************************************************)
(* Archives.  An archive is its leading bytes (magic) and its entries in   *)
(* stream order; an entry of type "bad" is a malformed header, a corrupt   *)
(* entry one whose content cannot be read to its end.                      *)
(***************************************************************************)
ZipMagic == <<80, 75, 3, 4>>
GzipMagic == <<31, 139, 8>>

HasPrefix(s, p) == Len(s) >= Len(p) /\ SubSeq(s, 1, Len(p)) = p

\* the bytes http.DetectContentType takes as binary data
IsBinaryByte(b) == b <= 8 \/ b = 11 \/ (b >= 14 /\ b <= 26) \/ (b >= 28 /\ b <= 31)

\* http.DetectContentType on the payload's leading bytes
DetectContentType(archive) ==
    IF HasPrefix(archive.magic, ZipMagic) THEN "application/zip"
    ELSE IF HasPrefix(archive.magic, GzipMagic) THEN "application/x-gzip"
    ELSE IF \E i \in 1..Len(archive.magic) : IsBinaryByte(archive.magic[i])
    THEN "application/octet-stream"
    ELSE "text/plain; charset=utf-8"

Result(bytes, err) == [bytes |-> bytes, err |-> err]
NoErr == "nil"

\* the name a zip directory lists for an entry: a directory's ends in "/"
ZipName(f) == IF f.typ = "dir" THEN <<f.name, "/">> ELSE <<f.name>>

RECURSIVE ZipFind(_, _)
\* the loop over zipReader.File: index of the first entry named path, or 0
ZipFind(files, path) ==
    IF files = <<>> THEN 0
    ELSE IF ZipName(Head(files)) = <<path>> THEN 1
    ELSE LET r == ZipFind(Tail(files), path) IN IF r = 0 THEN 0 ELSE r + 1

\* what a read of an entry's content delivers: all of it, or, from a
\* corrupt entry, all but the last byte and then an error
Readable(f) ==
    IF f.corrupt /\ f.content # <<>>
    THEN SubSeq(f.content, 1, Len(f.content) - 1)
    ELSE f.content

extractFromZipArchive(path, archive) ==
    IF \E i \in 1..Len(archive.items) : archive.items[i].typ = "bad"
    THEN Result(<<>>, "failed to open zip archive")
    ELSE LET i == ZipFind(archive.items, path) IN
         IF i = 0 THEN Result(<<>>, "could not find path in zip archive")
         ELSE LET bw == ReadFrom(NewWriter, Readable(archive.items[i])) IN
              IF archive.items[i].corrupt
              THEN Result(<<>>, "failed to copy path to from archive")
              ELSE Result(bw.out, NoErr)

RECURSIVE TarScanAnyType(_, _, _)
\* a scan that matches on the name alone, whatever the entry's type
TarScanAnyType(items, path, bw) ==
    IF items = <<>> THEN Result(bw.out, NoErr)
    ELSE LET hdr == Head(items) IN
         IF hdr.typ = "bad" THEN Result(<<>>, "failed to read tar archive")
         ELSE IF hdr.name = path
         THEN Result(ReadFrom(bw, Readable(hdr)).out, NoErr)
         ELSE TarScanAnyType(Tail(items), path, bw)

RECURSIVE TarScanToEnd(_, _, _)
\* a scan without the break: it goes on reading headers after a match
TarScanToEnd(items, path, bw) ==
    IF items = <<>> THEN Result(bw.out, NoErr)
    ELSE LET hdr == Head(items) IN
         IF hdr.typ = "bad" THEN Result(<<>>, "failed to read tar archive")
         ELSE IF hdr.name = path /\ hdr.typ = "reg"
         THEN TarScanToEnd(Tail(items), path, ReadFrom(bw, Readable(hdr)))
         ELSE TarScanToEnd(Tail(items), path, bw)

RECURSIVE TarScan(_, _, _)
\* the loop over tr.Next(): bw is the buffered writer over b; the error of
\* io.Copy(bw, tr) is dropped
TarScan(items, path, bw) ==
    IF items = <<>> THEN Result(bw.out, NoErr)
    ELSE LET hdr == Head(items) IN
         IF hdr.typ = "bad" THEN Result(<<>>, "failed to read tar archive")
         ELSE IF hdr.name = path /\ hdr.typ = "reg"
         THEN Result(ReadFrom(bw, Readable(hdr)).out, NoErr)
         ELSE TarScan(Tail(items), path, bw)

extractFromTGZArchive(path, archive) == TarScan(archive.items, path, NewWriter)

\* a dispatch that takes every payload that is not gzip for a zip archive
extractFromArchiveDefaultZip(path, archive) ==
    IF DetectContentType(archive) = "application/x-gzip"
    THEN extractFromTGZArchive(path, archive)
    ELSE extractFromZipArchive(path, archive)

extractFromArchive(path, archive) ==
    LET contentType == DetectContentType(archive) IN
    IF contentType = "application/zip" THEN extractFromZipArchive(path, archive)
    ELSE IF contentType = "application/x-gzip" THEN extractFromTGZArchive(path, archive)
    ELSE Result(<<>>, "unknown archive type")

(***************************************************************************)
(* The inputs of a run and the environment's possible answers.             *)
(***************************************************************************)
V120 == <<"1", ".", "2", ".", "0">>
V130 == <<"1", ".", "3", ".", "0">>
V120Build == <<"1", ".", "2", ".", "0", "+", "b">>
VNoPatch == <<"1", ".", "2">>
VDev == <<"d", "e", "v">>

\* --version arguments: none, a newer version, the running version with
\* build metadata, a malformed one
VersionArgs == {<<>>, V130, V120Build, VNoPatch}
\* version.Version of the running binary
RunningVersions == {V120, VDev}
\* what coderClient.APIVersion may return
APIResults ==
    {[val |-> v, err |-> FALSE] : v \in {V120, V130, VNoPatch}}
        \cup {[val |-> <<>>, err |-> TRUE]}
\* what u.confirm may return
ConfirmResults ==
    {[ans |-> "y", err |-> FALSE], [ans |-> "n", err |-> FALSE],
     [ans |-> "", err |-> TRUE]}

Content(n) == [i \in 1..n |-> i]
Contents == {Content(n) : n \in 0..MaxLen}

Entry(name, typ, content) ==
    [name |-> name, typ |-> typ, content |-> content, corrupt |-> FALSE]
BadEntry == Entry("", "bad", <<>>)
\* a regular file whose compressed content is corrupt or cut short
CorruptEntry(name, content) ==
    [name |-> name, typ |-> "reg", content |-> content, corrupt |-> TRUE]

ItemSeqs ==
    {<<Entry("coder", "reg", c)>> : c \in Contents}
        \cup {<<>>,
              <<Entry("other", "reg", Content(1))>>,
              <<Entry("Coder", "reg", Content(1))>>,
              <<Entry("coder", "dir", <<>>)>>,
              <<Entry("coder", "symlink", Content(1))>>,
              <<Entry("other", "reg", Content(1)), Entry("coder", "reg", Content(MaxLen))>>,
              <<Entry("coder", "dir", <<>>), Entry("coder", "reg", Content(1))>>,
              <<Entry("coder", "reg", Content(1)), Entry("coder", "reg", Content(2))>>,
              <<Entry("coder", "reg", Content(1)), BadEntry>>,
              <<CorruptEntry("coder", Content(MaxLen))>>,
              <<BadEntry>>}

Archives ==
    {[magic |-> m, items |-> it] : m \in {ZipMagic, GzipMagic}, it \in ItemSeqs}
        \cup {[magic |-> m, items |-> it] :
                m \in {<<>>, <<0, 1, 2, 3>>, <<104, 105>>},
                it \in {<<>>, <<Entry("coder", "reg", Content(1))>>}}

EmptyBody == [magic |-> <<>>, items |-> <<>>]
StatusOK == 200
\* what httpClient.Get may return: an error, or a response with a status
\* and a body whose read may fail (readErr)
GetResults ==
    {[err |-> TRUE, status |-> 0, body |-> EmptyBody, readErr |-> FALSE]}
        \cup {[err |-> FALSE, status |-> c, body |-> EmptyBody, readErr |-> FALSE] :
                c \in {404, 500}}
        \cup {[err |-> FALSE, status |-> StatusOK, body |-> a, readErr |-> FALSE] :
                a \in Archives}
        \cup {[err |-> FALSE, status |-> StatusOK, body |-> EmptyBody, readErr |-> TRUE]}

(***************************************************************************)
(* The filesystem u.fs: a file (mode, data) or NoFile at each path.        *)
(***************************************************************************)
NoFile == [exists |-> FALSE, mode |-> 0, data |-> <<>>]
executablePath == <<"/home/coder/bin/coder">>
\* a staging path that is the executable's own path
StagingAtExecutablePath == executablePath
\* u.executablePath + ".new"
updatedCoderBinaryPath == executablePath \o <<".new">>
Paths == {executablePath, updatedCoderBinaryPath}

File(mode, data) == [exists |-> TRUE, mode |-> mode, data |-> data]
OldBinary == <<8>>
StaleData == <<9, 9>>
\* 0444, 0664, 0755
ExeModes == {292, 436, 493}
\* a file left at the staging path by an earlier run, mode 0600
StaleFile == File(384, StaleData)
\* 0, 022
Umasks == {0, 18}
WriteBits == 146

InitialFilesystems ==
    {[p \in Paths |-> IF p = executablePath THEN e ELSE n] :
        e \in {NoFile} \cup {File(m, OldBinary) : m \in ExeModes},
        n \in {NoFile, StaleFile}}

\* fs.Stat(path)
Stat(f, path) ==
    IF f[path] = NoFile THEN [err |-> TRUE, mode |-> 0]
    ELSE [err |-> FALSE, mode |-> f[path].mode]

\* fs.OpenFile(path, O_RDWR|O_CREATE|O_TRUNC, perm) succeeding: an existing
\* file is truncated and keeps its mode, a new one gets perm less the umask
OpenFile(f, path, perm, mask) ==
    IF f[path] = NoFile
    THEN [f EXCEPT ![path] = File(BitClear(perm, mask), <<>>)]
    ELSE [f EXCEPT ![path] = File(f[path].mode, <<>>)]

\* what a write through the open handle leaves in the file
FileWrite(f, path, data) ==
    [f EXCEPT ![path] = File(f[path].mode, f[path].data \o data)]

\* fs.Rename(oldpath, newpath) succeeding: newpath is replaced as a whole
Rename(f, oldpath, newpath) ==
    [f EXCEPT ![newpath] = f[oldpath], ![oldpath] = NoFile]

(***************************************************************************)
(* updater.Run as a state machine: pc is the position in Run, the other    *)
(* variables are its arguments, its locals, the filesystem and the record  *)
(* of the calls made on the updater's collaborators.                       *)
(***************************************************************************)
VARIABLES
    pc,                 \* the step Run is about to take, or its outcome
    ret,                \* what Run returned: NoErr or a clog.Fatal error
    force,              \* argument force
    versionArg,         \* argument versionArg
    runningVersion,     \* version.Version
    goos,               \* runtime.GOOS
    umask,              \* the process's file mode creation mask
    fs,                 \* u.fs
    fs0,                \* u.fs when Run was called
    currentBinaryStat,  \* mode of the preflight stat
    apiVersion,         \* what APIVersion returned
    desiredVersion,     \* the parsed desired version
    confirmAnswer,      \* what u.confirm returned
    downloadURL,
    resp,               \* what httpClient.Get returned
    downloadBuf,        \* the archive fetched
    updatedBinary,      \* the bytes extracted
    fsWriter,           \* the buffered writer over the staging file
    calls,              \* the collaborators' calls, in order
    respBodyOpen,       \* resp.Body was obtained and is not closed
    updatedBinOpen,     \* the handle updatedBin was obtained and is not closed
    ctxDone,            \* the step at which ctx was cancelled, or "none"
    dir,                \* two runs: the directory, path -> inode (0: no entry)
    inodes,             \* two runs: the content of each inode
    run                 \* two runs: each run's position, binary and open handle

vars == <<pc, ret, force, versionArg, runningVersion, goos, umask, fs, fs0,
          currentBinaryStat, apiVersion, desiredVersion, confirmAnswer,
          downloadURL, resp, downloadBuf, updatedBinary, fsWriter, calls,
          respBodyOpen, updatedBinOpen, ctxDone, dir, inodes, run>>

\* the state of the two interleaved runs, which a single run leaves alone
twoRuns == <<dir, inodes, run>>

args == <<force, versionArg, runningVersion, goos, umask, fs0>>
GOARCH == "amd64"
\* the value of an argument or a local that is not yet set
NoVersion == VersionErr
NoAnswer == [ans |-> "none", err |-> FALSE]
NoResponse == [err |-> FALSE, status |-> 0, body |-> EmptyBody, readErr |-> FALSE]

\* clog.Fatal(msg, ...): the message, and the URL, status code and cause
\* string the call puts into it
Fatal(msg, url, code, cause) == [msg |-> msg, url |-> url, code |-> code, cause |-> cause]
\* Run has not returned
Running == Fatal("running", <<>>, 0, "")
\* return nil
Nil == Fatal("nil", <<>>, 0, "")

Init ==
    /\ pc = "Preflight"
    /\ ret = Running
    /\ force \in BOOLEAN
    /\ versionArg \in VersionArgs
    /\ runningVersion \in RunningVersions
    /\ goos \in {"linux", "darwin"}
    /\ umask \in Umasks
    /\ fs \in InitialFilesystems
    /\ fs0 = fs
    /\ currentBinaryStat = 0
    /\ apiVersion = <<>>
    /\ desiredVersion = NoVersion
    /\ confirmAnswer = NoAnswer
    /\ downloadURL = <<>>
    /\ resp = NoResponse
    /\ downloadBuf = EmptyBody
    /\ updatedBinary = <<>>
    /\ fsWriter = NewWriter
    /\ calls = <<>>
    /\ respBodyOpen = FALSE
    /\ updatedBinOpen = FALSE
    /\ ctxDone = "none"
    /\ dir = [p \in Paths |-> 0]
    /\ inodes = <<>>
    /\ run = <<>>

\* the check with the read bits 0444 in place of the write bits
MissingReadPermission(mode) == BitAnd(mode, 292) = 0
\* currentBinaryStat.Mode().Perm()&0222 == 0
MissingWritePermission(mode) == BitAnd(mode, WriteBits) = 0

\* a status check that lets every status below 500 pass
StatusIsNotServerError(status) == status < 500
\* resp.StatusCode == http.StatusOK
StatusIsOK(status) == status = StatusOK

\* return clog.Fatal(...)
Fail(e) == pc' = "Failed" /\ ret' = e

\* u.fs.Stat(u.executablePath) and the permission check
Preflight ==
    /\ pc = "Preflight"
    /\ calls' = Append(calls, "Stat")
    /\ LET st == Stat(fs, executablePath) IN
       IF st.err
       THEN Fail(Fatal("preflight: cannot stat current binary", <<>>, 0, ""))
            /\ UNCHANGED currentBinaryStat
       ELSE IF MissingWritePermission(st.mode)
       THEN Fail(Fatal("preflight: missing write permission on current binary", <<>>, 0, ""))
            /\ currentBinaryStat' = st.mode
       ELSE pc' = "APIVersion" /\ currentBinaryStat' = st.mode /\ UNCHANGED ret
    /\ UNCHANGED <<args, twoRuns, ctxDone, respBodyOpen, updatedBinOpen,
                   fs, apiVersion, desiredVersion, confirmAnswer, downloadURL,
                   resp, downloadBuf, updatedBinary, fsWriter>>

\* u.coderClient.APIVersion(ctx)
FetchAPIVersion ==
    /\ pc = "APIVersion"
    /\ \E r \in APIResults :
        /\ calls' = Append(calls, "APIVersion")
        /\ IF r.err
           THEN Fail(Fatal("fetch api version", <<>>, 0, "")) /\ UNCHANGED apiVersion
           ELSE pc' = "ResolveVersion" /\ apiVersion' = r.val /\ UNCHANGED ret
    /\ UNCHANGED <<args, twoRuns, ctxDone, respBodyOpen, updatedBinOpen,
                   fs, currentBinaryStat, desiredVersion, confirmAnswer,
                   downloadURL, resp, downloadBuf, updatedBinary, fsWriter>>

\* desiredVersion from apiVersion or from versionArg
ResolveVersion ==
    /\ pc = "ResolveVersion"
    /\ IF versionArg = <<>>
       THEN LET v == Make(apiVersion) IN
            IF ~v.ok
            THEN Fail(Fatal("coder reported invalid version", <<>>, 0, ""))
                 /\ UNCHANGED desiredVersion
            ELSE pc' = "CompareVersion" /\ desiredVersion' = v /\ UNCHANGED ret
       ELSE LET v == Make(versionArg) IN
            IF ~v.ok
            THEN Fail(Fatal("invalid version argument provided", <<>>, 0, ""))
                 /\ UNCHANGED desiredVersion
            ELSE pc' = "CompareVersion" /\ desiredVersion' = v /\ UNCHANGED ret
    /\ UNCHANGED <<args, twoRuns, ctxDone, respBodyOpen, updatedBinOpen,
                   fs, currentBinaryStat, apiVersion, confirmAnswer, downloadURL,
                   resp, downloadBuf, updatedBinary, fsWriter, calls>>

\* a comparison that takes an unparseable running version for up to date
UpToDateOrUnknown(desired, running) ==
    LET currentVersion == Make(running) IN
    ~currentVersion.ok \/ CompareIsZero(desired, currentVersion)

\* semver.Make(version.Version) succeeded and Compare gave 0
UpToDate(desired, running) ==
    LET currentVersion == Make(running) IN
    currentVersion.ok /\ CompareIsZero(desired, currentVersion)

\* the comparison with the running version: "Up to date!" or go on
CompareVersion ==
    /\ pc = "CompareVersion"
    /\ IF UpToDate(desiredVersion, runningVersion)
       THEN pc' = "NoOpDone" /\ ret' = Nil
       ELSE pc' = "Confirm" /\ UNCHANGED ret
    /\ UNCHANGED <<args, twoRuns, ctxDone, respBodyOpen, updatedBinOpen,
                   fs, currentBinaryStat, apiVersion, desiredVersion,
                   confirmAnswer, downloadURL, resp, downloadBuf, updatedBinary, fsWriter,
                   calls>>

\* if !force { u.confirm(label) }
\* a gate that a set force flag does not open
ConfirmationNeverBypassed(f) == FALSE

\* `if !u.force`: the confirmation is skipped when force is set
ConfirmationBypassed(f) == f

\* a confirmation whose error is not looked at
ConfirmNeverFails(r) == FALSE

\* `if _, err := u.confirm(label); err != nil`: only the error is looked at
ConfirmFailed(r) == r.err

Confirm ==
    /\ pc = "Confirm"
    /\ IF ConfirmationBypassed(force)
       THEN pc' = "Fetch" /\ UNCHANGED <<ret, confirmAnswer, calls>>
       ELSE \E r \in ConfirmResults :
            /\ calls' = Append(calls, "confirm")
            /\ confirmAnswer' = r
            /\ IF ConfirmFailed(r)
               THEN Fail(Fatal("failed to confirm update", <<>>, 0, ""))
               ELSE pc' = "Fetch" /\ UNCHANGED ret
    /\ UNCHANGED <<args, twoRuns, ctxDone, respBodyOpen, updatedBinOpen,
                   fs, currentBinaryStat, apiVersion, desiredVersion,
                   downloadURL, resp, downloadBuf, updatedBinary, fsWriter>>

\* a fetch that asks again after a failed Get or a status other than 200
FetchWithRetry ==
    /\ pc = "Fetch"
    /\ LET url == makeDownloadURL(FinalizeVersion(desiredVersion), goos, GOARCH) IN
       /\ downloadURL' = url
       /\ calls' = IF \E i \in 1..Len(calls) : calls[i] = "Get"
                   THEN calls ELSE Append(calls, "Get")
       /\ \E g \in GetResults :
            /\ resp' = g
            /\ IF g.err \/ ~StatusIsOK(g.status)
               THEN UNCHANGED <<pc, ret, downloadBuf>>
               ELSE IF g.readErr
               THEN Fail(Fatal("failed to download", url, 0, ""))
                    /\ UNCHANGED downloadBuf
               ELSE pc' = "Extract" /\ downloadBuf' = g.body /\ UNCHANGED ret
            /\ respBodyOpen' = (~g.err /\ (~StatusIsOK(g.status) \/ g.readErr))
    /\ UNCHANGED <<args, twoRuns, ctxDone, updatedBinOpen,
                   fs, currentBinaryStat, apiVersion, desiredVersion,
                   confirmAnswer, updatedBinary, fsWriter>>

\* makeDownloadURL, u.httpClient.Get, the status check and the copy of the
\* body into downloadBuf
Fetch ==
    /\ pc = "Fetch"
    /\ LET url == makeDownloadURL(FinalizeVersion(desiredVersion), goos, GOARCH) IN
       /\ downloadURL' = url
       /\ calls' = Append(calls, "Get")
       /\ \E g \in GetResults :
            /\ resp' = g
            /\ IF g.err
               THEN Fail(Fatal("failed to fetch URL", url, 0, ""))
                    /\ UNCHANGED downloadBuf
               ELSE IF ~StatusIsOK(g.status)
               THEN Fail(Fatal("failed to fetch release", url, g.status, ""))
                    /\ UNCHANGED downloadBuf
               ELSE IF g.readErr
               THEN Fail(Fatal("failed to download", url, 0, ""))
                    /\ UNCHANGED downloadBuf
               ELSE pc' = "Extract" /\ downloadBuf' = g.body /\ UNCHANGED ret
            \* resp.Body.Close() comes after the status check and the copy
            /\ respBodyOpen' = (~g.err /\ (~StatusIsOK(g.status) \/ g.readErr))
    /\ UNCHANGED <<args, twoRuns, ctxDone, updatedBinOpen,
                   fs, currentBinaryStat, apiVersion, desiredVersion,
                   confirmAnswer, updatedBinary, fsWriter>>

\* extractFromArchive("coder", downloadBuf.Bytes())
Extract ==
    /\ pc = "Extract"
    /\ calls' = Append(calls, "extractFromArchive")
    /\ LET r == extractFromArchive("coder", downloadBuf) IN
       IF r.err # NoErr
       THEN Fail(Fatal("failed to extract coder binary from archive", <<>>, 0, r.err))
            /\ UNCHANGED updatedBinary
       ELSE pc' = "StageCreate" /\ updatedBinary' = r.bytes /\ UNCHANGED ret
    /\ UNCHANGED <<args, twoRuns, ctxDone, respBodyOpen, updatedBinOpen,
                   fs, currentBinaryStat, apiVersion, desiredVersion,
                   confirmAnswer, downloadURL, resp, downloadBuf, fsWriter>>

\* u.fs.OpenFile(updatedCoderBinaryPath, O_RDWR|O_CREATE|O_TRUNC, perm)
StageCreate ==
    /\ pc = "StageCreate"
    /\ calls' = Append(calls, "OpenFile")
    /\ \E ok \in BOOLEAN :
        IF ok
        THEN /\ fs' = OpenFile(fs, updatedCoderBinaryPath, currentBinaryStat, umask)
             /\ pc' = "StageWrite"
             /\ updatedBinOpen' = TRUE
             /\ UNCHANGED ret
        ELSE Fail(Fatal("failed to create file for updated coder binary", <<>>, 0, ""))
             /\ UNCHANGED <<fs, updatedBinOpen>>
    /\ UNCHANGED <<args, twoRuns, ctxDone, respBodyOpen,
                   currentBinaryStat, apiVersion, desiredVersion, confirmAnswer,
                   downloadURL, resp, downloadBuf, updatedBinary, fsWriter>>

\* fsWriter := bufio.NewWriter(updatedBin); io.Copy(fsWriter, reader), which
\* is one fsWriter.Write of all of updatedBinary (bytes.Reader.WriteTo)
StageWrite ==
    /\ pc = "StageWrite"
    /\ calls' = Append(calls, "Write")
    /\ \E accept \in 0..Len(updatedBinary) :
        LET w == Write(NewWriter, updatedBinary, accept) IN
        /\ (accept < Len(updatedBinary) => w.err)
        /\ fsWriter' = w
        /\ fs' = FileWrite(fs, updatedCoderBinaryPath, w.out)
        /\ IF w.err
           THEN Fail(Fatal("failed to write updated coder binary to disk", <<>>, 0, ""))
           ELSE pc' = "AtomicReplace" /\ UNCHANGED ret
    /\ UNCHANGED <<args, twoRuns, ctxDone, respBodyOpen, updatedBinOpen,
                   currentBinaryStat, apiVersion, desiredVersion, confirmAnswer,
                   downloadURL, resp, downloadBuf, updatedBinary>>

\* u.fs.Rename(updatedCoderBinaryPath, u.executablePath)
AtomicReplace ==
    /\ pc = "AtomicReplace"
    /\ calls' = Append(calls, "Rename")
    /\ \E ok \in BOOLEAN :
        IF ok
        THEN /\ fs' = Rename(fs, updatedCoderBinaryPath, executablePath)
             /\ pc' = "Done"
             /\ ret' = Nil
        ELSE Fail(Fatal("failed to update coder binary in-place", <<>>, 0, ""))
             /\ UNCHANGED fs
    /\ UNCHANGED <<args, twoRuns, ctxDone, respBodyOpen, updatedBinOpen,
                   currentBinaryStat, apiVersion, desiredVersion, confirmAnswer,
                   downloadURL, resp, downloadBuf, updatedBinary, fsWriter>>

Next ==
    \/ Preflight
    \/ FetchAPIVersion
    \/ ResolveVersion
    \/ CompareVersion
    \/ Confirm
    \/ Fetch
    \/ Extract
    \/ StageCreate
    \/ StageWrite
    \/ AtomicReplace

Spec == Init /\ [][Next]_vars

\* Run is sequential code and each of its calls returns: a run that can
\* take a step takes one
LiveSpec == Init /\ [][Next]_vars /\ WF_vars(Next)

(***************************************************************************)
(* The caller cancels ctx while Run is under way.  Run hands ctx to        *)
(* APIVersion only: the getter's Get(url) takes no context, and no later   *)
(* step looks at ctx, so the cancellation changes nothing but ctx itself.  *)
(* The position Fetch lasts until Get has returned.                        *)
(***************************************************************************)
Cancel ==
    /\ pc \notin {"Done", "NoOpDone", "Failed"}
    /\ ctxDone = "none"
    /\ ctxDone' = pc
    /\ UNCHANGED <<args, twoRuns, respBodyOpen, updatedBinOpen, pc, ret, fs,
                   currentBinaryStat, apiVersion,
                   desiredVersion, confirmAnswer, downloadURL, resp, downloadBuf,
                   updatedBinary, fsWriter, calls>>

NextCancel == Next \/ Cancel

SpecCancel == Init /\ [][NextCancel]_vars

(***************************************************************************)
(* Two runs of Run against the same executable path, from the point where  *)
(* each has extracted its binary: the open of the staging file, the copy   *)
(* into it and the rename, interleaved.  The filesystem is a directory of  *)
(* inodes, since a handle stays on its inode whatever the directory does.  *)
(***************************************************************************)
Runs == {1, 2}

\* the variables of the single run, which the two runs leave alone
oneRun == <<pc, ret, force, versionArg, runningVersion, goos, umask, fs, fs0,
            currentBinaryStat, apiVersion, desiredVersion, confirmAnswer,
            downloadURL, resp, downloadBuf, updatedBinary, fsWriter, calls,
            respBodyOpen, updatedBinOpen, ctxDone>>

\* the binary run r extracted: n bytes that name the run
Binary(r, n) == [i \in 1..n |-> r]

\* binaries of more bytes than the buffer of fsWriter holds
Binaries(r) == {Binary(r, n) : n \in (BufSize + 1)..(BufSize + MaxLen)}

InitTwoRuns ==
    /\ pc = "Preflight" /\ ret = Running /\ force = FALSE /\ versionArg = <<>>
    /\ runningVersion = V120 /\ goos = "linux" /\ umask = 0
    /\ fs = [p \in Paths |-> NoFile] /\ fs0 = fs
    /\ currentBinaryStat = 0 /\ apiVersion = <<>> /\ desiredVersion = NoVersion
    /\ confirmAnswer = NoAnswer /\ downloadURL = <<>> /\ resp = NoResponse
    /\ downloadBuf = EmptyBody /\ updatedBinary = <<>> /\ fsWriter = NewWriter
    /\ calls = <<>> /\ respBodyOpen = FALSE /\ updatedBinOpen = FALSE
    /\ ctxDone = "none"
    /\ \E stale \in BOOLEAN :
        /\ inodes = IF stale THEN <<OldBinary, StaleData>> ELSE <<OldBinary>>
        /\ dir = [p \in Paths |-> IF p = executablePath THEN 1
                                  ELSE IF stale THEN 2 ELSE 0]
    /\ run \in [Runs -> {[pc |-> "StageCreate", bin |-> b, fd |-> 0] :
                            b \in Binaries(1) \cup Binaries(2)}]
    /\ \A r \in Runs : run[r].bin \in Binaries(r)

\* a write of p at offset 0 through a handle on a file that holds data
WriteAt(data, p) == p \o SubSeq(data, Len(p) + 1, Len(data))

\* u.fs.OpenFile(updatedCoderBinaryPath, O_RDWR|O_CREATE|O_TRUNC, perm): the
\* file in the directory is truncated, or a new one is created
TwoStageCreate(r) ==
    /\ run[r].pc = "StageCreate"
    /\ IF dir[updatedCoderBinaryPath] = 0
       THEN /\ inodes' = Append(inodes, <<>>)
            /\ dir' = [dir EXCEPT ![updatedCoderBinaryPath] = Len(inodes) + 1]
            /\ run' = [run EXCEPT ![r].pc = "StageWrite", ![r].fd = Len(inodes) + 1]
       ELSE /\ inodes' = [inodes EXCEPT ![dir[updatedCoderBinaryPath]] = <<>>]
            /\ dir' = dir
            /\ run' = [run EXCEPT ![r].pc = "StageWrite",
                                  ![r].fd = dir[updatedCoderBinaryPath]]
    /\ UNCHANGED oneRun

\* io.Copy(fsWriter, bytes.NewReader(updatedBinary)): what fsWriter passes
\* on goes to the inode of the handle
TwoStageWrite(r) ==
    /\ run[r].pc = "StageWrite"
    /\ LET w == Write(NewWriter, run[r].bin, Len(run[r].bin)) IN
       inodes' = [inodes EXCEPT ![run[r].fd] = WriteAt(@, w.out)]
    /\ run' = [run EXCEPT ![r].pc = "AtomicReplace"]
    /\ UNCHANGED <<oneRun, dir>>

\* u.fs.Rename(updatedCoderBinaryPath, u.executablePath): fails when the
\* staging path has no entry
TwoAtomicReplace(r) ==
    /\ run[r].pc = "AtomicReplace"
    /\ IF dir[updatedCoderBinaryPath] = 0
       THEN run' = [run EXCEPT ![r].pc = "Failed"] /\ dir' = dir
       ELSE /\ dir' = [dir EXCEPT ![executablePath] = dir[updatedCoderBinaryPath],
                                  ![updatedCoderBinaryPath] = 0]
            /\ run' = [run EXCEPT ![r].pc = "Done"]
    /\ UNCHANGED <<oneRun, inodes>>

NextTwoRuns ==
    \/ \E r \in Runs : TwoStageCreate(r)
    \/ \E r \in Runs : TwoStageWrite(r)
    \/ \E r \in Runs : TwoAtomicReplace(r)

SpecTwoRuns == InitTwoRuns /\ [][NextTwoRuns]_vars

(***************************************************************************)
(* Vocabulary of the properties.                                           *)
(***************************************************************************)
Terminated == pc \in {"Done", "NoOpDone", "Failed"}

\* how many times a collaborator was called
Count(name) == Cardinality({i \in 1..Len(calls) : calls[i] = name})

Called(name) == Count(name) > 0

\* no file was created, written or renamed
NoFileMutation ==
    /\ ~Called("OpenFile") /\ ~Called("Write") /\ ~Called("Rename")
    /\ fs = fs0

\* none of the owner, group and other write bits of a mode is set
NoWriteBit(mode) ==
    /\ (mode \div 128) % 2 = 0
    /\ (mode \div 16) % 2 = 0
    /\ (mode \div 2) % 2 = 0

\* the preflight of this run passes
PreflightPasses == fs0[executablePath].exists /\ ~NoWriteBit(fs0[executablePath].mode)

\* the reporter has returned a version string (not an error)
Reported == Called("APIVersion") /\ pc # "APIVersion" /\ ret.msg # "fetch api version"

\* the indices of the regular files named name in an archive
RegularEntries(archive, name) ==
    {i \in 1..Len(archive.items) :
        archive.items[i].name = name /\ archive.items[i].typ = "reg"}

Min(S) == CHOOSE x \in S : \A y \in S : x <= y

\* no entry of the archive is malformed
WellFormed(archive) == \A i \in 1..Len(archive.items) : archive.items[i].typ # "bad"

\* a well-formed zip or gzip-tar archive without a matching entry
MissingEntry(archive, name) ==
    /\ WellFormed(archive)
    /\ \/ /\ HasPrefix(archive.magic, ZipMagic)
          /\ \A i \in 1..Len(archive.items) : ZipName(archive.items[i]) # <<name>>
       \/ /\ HasPrefix(archive.magic, GzipMagic)
          /\ RegularEntries(archive, name) = {}

(***************************************************************************)
(* C1: when Run returns success after the rename, the file at the          *)
(* executable path holds exactly the bytes of the regular `coder` entry of *)
(* the fetched archive, whatever their length.                             *)
(***************************************************************************)
C1_InstalledBytesAreEntry ==
    (/\ pc = "Done"
     /\ RegularEntries(downloadBuf, "coder") # {}
     /\ \A i \in RegularEntries(downloadBuf, "coder") : ~downloadBuf.items[i].corrupt)
        => fs[executablePath].data
             = downloadBuf.items[Min(RegularEntries(downloadBuf, "coder"))].content

(***************************************************************************)
(* C2: until the rename has succeeded, and so in every failed run, the     *)
(* file at the executable path has the content and mode it had when the    *)
(* run started.                                                            *)
(***************************************************************************)
C2_FailureKeepsExecutable ==
    pc # "Done" => fs[executablePath] = fs0[executablePath]

\* a run whose rename call failed, with the binary extracted and staged
C2_Witness ==
    /\ pc = "Failed"
    /\ Called("Rename")
    /\ fs[updatedCoderBinaryPath].exists
    /\ fs[updatedCoderBinaryPath].data # <<>>

(***************************************************************************)
(* C3: a run whose preflight passes and whose desired version, explicit    *)
(* or reported by the remote, compares equal to the running version ends   *)
(* in success without a call of the HTTP getter and without creating,      *)
(* writing or renaming a file.                                             *)
(***************************************************************************)
C3_DesiredEqualsRunning ==
    /\ PreflightPasses
    /\ Make(runningVersion).ok
    /\ \/ /\ versionArg # <<>>
          /\ Make(versionArg).ok
          /\ CompareIsZero(Make(versionArg), Make(runningVersion))
       \/ /\ versionArg = <<>>
          /\ Reported
          /\ Make(apiVersion).ok
          /\ CompareIsZero(Make(apiVersion), Make(runningVersion))

C3_EqualVersionsAreNoOp ==
    C3_DesiredEqualsRunning
        => /\ ~Called("Get")
           /\ NoFileMutation
           /\ Terminated => (pc = "NoOpDone" /\ ret = Nil)

(***************************************************************************)
(* C4: when Run returns, the staging file the run created no longer        *)
(* exists: removed on failure, consumed by the rename on success.          *)
(***************************************************************************)
C4_StagingFileGone ==
    (Terminated /\ Called("Write")) => ~fs[updatedCoderBinaryPath].exists

(***************************************************************************)
(* C5: after a successful run the mode of the file at the executable path  *)
(* is the mode the preflight stat observed, whatever the filesystem held   *)
(* before the run.                                                         *)
(***************************************************************************)
C5_ModePreserved ==
    pc = "Done" => fs[executablePath].mode = fs0[executablePath].mode

VersionErrors ==
    {"invalid version argument provided", "coder reported invalid version"}

C7_MalformedDesired ==
    /\ PreflightPasses
    /\ \/ versionArg # <<>> /\ ~Make(versionArg).ok
       \/ versionArg = <<>> /\ Reported /\ ~Make(apiVersion).ok

C7_MalformedVersionIsVersionError ==
    C7_MalformedDesired
        => /\ ~Called("Get")
           /\ NoFileMutation
           /\ pc \notin {"Done", "NoOpDone"}
           /\ pc = "Failed" => ret.msg \in VersionErrors

(***************************************************************************)
(* C8: with an explicit version argument the remote reporter is not        *)
(* consulted, so its failure cannot fail the run; without one it is        *)
(* called exactly once.                                                    *)
(***************************************************************************)
C8_ExplicitVersionIgnoresReporter ==
    /\ versionArg # <<>> => (~Called("APIVersion") /\ ret.msg # "fetch api version")
    /\ (versionArg = <<>> /\ Terminated /\ PreflightPasses) => Count("APIVersion") = 1

(***************************************************************************)
(* C9: after a Get whose response status is not 200, Run has failed with   *)
(* an error that carries the URL asked for and the status code; no         *)
(* staging file is created, nothing is extracted and nothing is renamed.   *)
(***************************************************************************)
C9_Non200 == Called("Get") /\ ~resp.err /\ resp.status # 200

C9_Non200FailsCleanly ==
    C9_Non200
        => /\ pc = "Failed"
           /\ ret.msg = "failed to fetch release"
           /\ ret.url = makeDownloadURL(FinalizeVersion(desiredVersion), goos, GOARCH)
           /\ ret.code = resp.status
           /\ ~Called("extractFromArchive")
           /\ NoFileMutation

\* a run that got a 404
C9_Witness == C9_Non200 /\ resp.status = 404 /\ pc = "Failed" /\ Count("Get") = 1

(***************************************************************************)
(* C10: for a zip or gzip-tar archive without a matching entry,            *)
(* extractFromArchive returns an entry-not-found error and no bytes, never *)
(* a nil error with an empty result.                                       *)
(***************************************************************************)
EntryNotFoundErrors == {"could not find path in zip archive"}

C10_MissingEntryIsError ==
    (Called("extractFromArchive") /\ MissingEntry(downloadBuf, "coder"))
        => /\ pc = "Failed"
           /\ ret.msg = "failed to extract coder binary from archive"
           /\ ret.cause \in EntryNotFoundErrors

(***************************************************************************)
(* C11: for a zip archive with an entry named exactly `coder` (case        *)
(* matters) of content B, extractFromArchive("coder", archive) returns     *)
(* exactly B and a nil error, whatever the length of B.                    *)
(***************************************************************************)
ExtractFailed == ret.msg = "failed to extract coder binary from archive"

\* the indices of the entries a zip directory lists under name
ZipEntries(archive, name) ==
    {i \in 1..Len(archive.items) : ZipName(archive.items[i]) = <<name>>}

\* Run has extracted from a readable zip archive that has the entry
C11_ZipWithEntry ==
    /\ Called("extractFromArchive")
    /\ HasPrefix(downloadBuf.magic, ZipMagic)
    /\ WellFormed(downloadBuf)
    /\ ZipEntries(downloadBuf, "coder") # {}
    /\ ~downloadBuf.items[Min(ZipEntries(downloadBuf, "coder"))].corrupt

C11_ZipRoundTrip ==
    C11_ZipWithEntry
        => /\ ~ExtractFailed
           /\ updatedBinary = downloadBuf.items[Min(ZipEntries(downloadBuf, "coder"))].content

\* an entry shorter than the buffered writer's buffer has been extracted
C11_Witness ==
    /\ C11_ZipWithEntry
    /\ pc = "StageCreate"
    /\ Len(updatedBinary) = 1

(***************************************************************************)
(* C12: for a gzip-tar archive with a regular file `coder` of content B,   *)
(* extractFromArchive("coder", archive) returns exactly B; a directory or  *)
(* symlink named `coder` is never matched, so an archive whose only        *)
(* `coder` entries are non-regular gives what the archive without them     *)
(* gives.                                                                  *)
(***************************************************************************)
\* the archive without its entries called name
WithoutEntries(archive, name) ==
    LET Other(e) == e.name # name IN
    [archive EXCEPT !.items = SelectSeq(@, Other)]

\* Run has extracted from a gzip-tar archive whose first regular `coder`
\* entry is readable and is reached by the scan
C12_TarWithRegular ==
    /\ Called("extractFromArchive")
    /\ HasPrefix(downloadBuf.magic, GzipMagic)
    /\ RegularEntries(downloadBuf, "coder") # {}
    /\ LET first == Min(RegularEntries(downloadBuf, "coder")) IN
       /\ \A j \in 1..(first - 1) : downloadBuf.items[j].typ # "bad"
       /\ ~downloadBuf.items[first].corrupt

\* Run has extracted from a gzip-tar archive whose `coder` entries are all
\* directories or symlinks
C12_TarOnlyNonRegular ==
    /\ Called("extractFromArchive")
    /\ HasPrefix(downloadBuf.magic, GzipMagic)
    /\ WellFormed(downloadBuf)
    /\ RegularEntries(downloadBuf, "coder") = {}
    /\ \E i \in 1..Len(downloadBuf.items) : downloadBuf.items[i].name = "coder"

C12_TarRegularOnly ==
    /\ C12_TarWithRegular
        => /\ ~ExtractFailed
           /\ updatedBinary =
                downloadBuf.items[Min(RegularEntries(downloadBuf, "coder"))].content
    /\ C12_TarOnlyNonRegular
        => LET r == extractFromArchive("coder", WithoutEntries(downloadBuf, "coder")) IN
           /\ updatedBinary = r.bytes
           /\ ExtractFailed <=> r.err # NoErr

\* a regular entry that follows another entry has been extracted
C12_Witness ==
    /\ C12_TarWithRegular
    /\ Min(RegularEntries(downloadBuf, "coder")) > 1
    /\ pc = "StageCreate"
    /\ Len(updatedBinary) >= 1

(***************************************************************************)
(* C13: when the matching entry decompresses to more bytes than the size   *)
(* cap, extraction fails with an error and returns no bytes, in the zip    *)
(* and in the gzip-tar path, and nothing is staged or installed.           *)
(***************************************************************************)
\* Run has extracted from an archive whose matching entry is over the cap
C13_OverCap ==
    \/ /\ C11_ZipWithEntry
       /\ Len(downloadBuf.items[Min(ZipEntries(downloadBuf, "coder"))].content) > SizeCap
    \/ /\ C12_TarWithRegular
       /\ Len(downloadBuf.items[Min(RegularEntries(downloadBuf, "coder"))].content) > SizeCap

C13_OverCapFails ==
    C13_OverCap
        => /\ pc = "Failed"
           /\ ExtractFailed
           /\ updatedBinary = <<>>
           /\ ~Called("OpenFile")
           /\ NoFileMutation

(***************************************************************************)
(* C14: when force is not set and the confirmation reports a decline (the  *)
(* answer "n") or an error, Run aborts: it returns an error, never calls   *)
(* the HTTP getter and creates, writes or renames no file.                 *)
(***************************************************************************)
\* the confirmation was asked and was declined or failed
C14_DeclinedOrErrored ==
    /\ ~force
    /\ Called("confirm")
    /\ confirmAnswer.err \/ confirmAnswer.ans = "n"

C14_DeclineAborts ==
    C14_DeclinedOrErrored
        => /\ pc = "Failed"
           /\ ~Called("Get")
           /\ ~Called("OpenFile") /\ ~Called("Write") /\ ~Called("Rename")
           /\ NoFileMutation

(***************************************************************************)
(* C15: with force set, Run never calls the confirmation; without force, a *)
(* run that reaches the confirmation step calls it exactly once, and       *)
(* before the HTTP getter is called.                                       *)
(***************************************************************************)
\* the position of the first call of name in the run's call sequence
Index(name) == Min({i \in 1..Len(calls) : calls[i] = name})

\* the run is past the confirmation step
PastConfirm == pc \in {"Fetch", "Extract", "StageCreate", "StageWrite", "Done"}
                  \/ Called("confirm") \/ Called("Get")

C15_ForceSkipsConfirm ==
    /\ force => ~Called("confirm")
    /\ Count("confirm") <= 1
    /\ ~force /\ PastConfirm => Count("confirm") = 1
    /\ ~force /\ Called("Get") => Index("confirm") < Index("Get")

\* a forced run has fetched the release without asking
C15_Witness == force /\ Called("Get") /\ ~Called("confirm")

(***************************************************************************)
(* C16: for every (version, os, arch) makeDownloadURL returns exactly      *)
(* https://github.com/cdr/coder-cli/releases/download/v<version>/          *)
(* coder-cli-<os>-<arch>.<ext>, with a single dot before the extension,    *)
(* where <ext> is tar.gz for "linux" and zip for every other os.           *)
(***************************************************************************)
\* the extension of the release convention, without a dot of its own
ReleaseExt(ostype) ==
    IF ostype = "linux" THEN <<"t", "a", "r", ".", "g", "z">> ELSE <<"z", "i", "p">>

\* the URL of the release convention
ReleaseURL(version, ostype, archtype) ==
    <<UrlPrefix>> \o version \o <<"/coder-cli-", ostype, "-", archtype, ".">>
        \o ReleaseExt(ostype)

C16_DownloadURLConvention ==
    Called("Get")
        => downloadURL = ReleaseURL(FinalizeVersion(desiredVersion), goos, GOARCH)

(***************************************************************************)
(* C17: for every payload whose sniffed format is neither zip nor gzip,    *)
(* the empty payload included, extractFromArchive returns an `unknown      *)
(* archive type` error and no bytes; the format is decided by the          *)
(* payload's leading bytes alone, never by the download URL or its         *)
(* extension.                                                              *)
(***************************************************************************)
SniffedZip == HasPrefix(downloadBuf.magic, ZipMagic)
SniffedGzip == HasPrefix(downloadBuf.magic, GzipMagic)
UnknownArchiveType == ExtractFailed /\ ret.cause = "unknown archive type"

\* the errors that only the zip path and only the gzip-tar path return
ZipOnlyErrors ==
    {"failed to open zip archive", "could not find path in zip archive",
     "failed to copy path to from archive"}
TarOnlyErrors == {"failed to gunzip archive", "failed to read tar archive"}

C17_UnknownArchiveType ==
    Called("extractFromArchive")
        => /\ UnknownArchiveType <=> ~SniffedZip /\ ~SniffedGzip
           /\ UnknownArchiveType
                => pc = "Failed" /\ updatedBinary = <<>> /\ NoFileMutation
           \* whatever extension the URL carries
           /\ SniffedZip /\ ExtractFailed => ret.cause \in ZipOnlyErrors
           /\ SniffedGzip /\ ExtractFailed => ret.cause \in TarOnlyErrors

\* the empty payload, fetched from a URL that ends in tar.gz, was refused
C17_Witness ==
    /\ goos = "linux"
    /\ Called("extractFromArchive")
    /\ downloadBuf.magic = <<>>
    /\ UnknownArchiveType

(***************************************************************************)
(* C18: in every run the steps occur only in the order preflight stat,     *)
(* version resolution, (no-op exit or confirmation), HTTP Get, extraction, *)
(* staging create and write, rename; each step runs at most once (one Get, *)
(* no retry), no step runs before its predecessor succeeded, and after a   *)
(* step has failed no later step runs.                                     *)
(***************************************************************************)
\* the calls of a run, in the order of the pipeline
StepOrder ==
    <<"Stat", "APIVersion", "confirm", "Get", "extractFromArchive",
      "OpenFile", "Write", "Rename">>

Rank(name) == CHOOSE i \in 1..Len(StepOrder) : StepOrder[i] = name

\* the positions of Run, in the order of its text; the three ways to
\* return share the last rank
PcOrder ==
    <<"Preflight", "APIVersion", "ResolveVersion", "CompareVersion", "Confirm",
      "Fetch", "Extract", "StageCreate", "StageWrite", "AtomicReplace">>

PcRank(p) ==
    IF \E i \in 1..Len(PcOrder) : PcOrder[i] = p
    THEN CHOOSE i \in 1..Len(PcOrder) : PcOrder[i] = p
    ELSE Len(PcOrder) + 1

\* the calls made so far are in pipeline order, none twice, and each was
\* made only after the step before it succeeded
C18_CallsInOrder ==
    /\ \A i, j \in 1..Len(calls) : i < j => Rank(calls[i]) < Rank(calls[j])
    /\ \A i \in 1..Len(StepOrder) : Count(StepOrder[i]) <= 1
    /\ Called("APIVersion") => Called("Stat") /\ fs0[executablePath].exists
                                  /\ ~MissingWritePermission(fs0[executablePath].mode)
    /\ Called("confirm") => Called("APIVersion") /\ ~force
    /\ Called("Get") => /\ Called("APIVersion")
                        /\ force \/ (Called("confirm") /\ ~confirmAnswer.err)
    /\ pc = "NoOpDone" => ~Called("confirm") /\ ~Called("Get")
    /\ Called("extractFromArchive")
          => Called("Get") /\ ~resp.err /\ StatusIsOK(resp.status) /\ ~resp.readErr
    /\ Called("OpenFile")
          => Called("extractFromArchive")
                /\ extractFromArchive("coder", downloadBuf).err = NoErr
    /\ Called("Write")
          => Called("OpenFile") /\ (fs[updatedCoderBinaryPath].exists \/ pc = "Done")
    /\ Called("Rename") => Called("Write") /\ ~fsWriter.err
    /\ pc = "Failed" => ret # Nil /\ ret # Running
    /\ pc = "Done" => Called("Rename") /\ ret = Nil

\* a step is taken only by a run that has not returned, moves forward in
\* the text of Run and makes at most one call
C18_StepForward ==
    /\ ~Terminated
    /\ PcRank(pc') > PcRank(pc)
    /\ calls' = calls \/ \E i \in 1..Len(StepOrder) : calls' = Append(calls, StepOrder[i])

C18_StrictSequence == []C18_CallsInOrder /\ [][C18_StepForward]_vars

\* a confirmed run has gone through every step
C18_Witness ==
    /\ pc = "Done"
    /\ calls = StepOrder

(***************************************************************************)
(* C19: no error is silently swallowed: when reading the matched entry's   *)
(* content fails part-way (corrupt or truncated zip or gzip-tar stream),   *)
(* or writing the staging file fails, Run returns the failure as an error; *)
(* a partial binary is never returned with a nil error and never renamed   *)
(* over the executable.                                                    *)
(***************************************************************************)
\* Run has extracted from an archive whose matching entry cannot be read
\* to its end
C19_CorruptEntryRead ==
    /\ Called("extractFromArchive")
    /\ \/ /\ SniffedZip
          /\ WellFormed(downloadBuf)
          /\ ZipEntries(downloadBuf, "coder") # {}
          /\ downloadBuf.items[Min(ZipEntries(downloadBuf, "coder"))].corrupt
       \/ /\ SniffedGzip
          /\ RegularEntries(downloadBuf, "coder") # {}
          /\ LET first == Min(RegularEntries(downloadBuf, "coder")) IN
             /\ \A j \in 1..(first - 1) : downloadBuf.items[j].typ # "bad"
             /\ downloadBuf.items[first].corrupt

C19_ErrorsPropagate ==
    /\ C19_CorruptEntryRead
        => /\ pc = "Failed"
           /\ ExtractFailed
           /\ updatedBinary = <<>>
           /\ ~Called("Rename")
    /\ Called("Write") /\ fsWriter.err
        => /\ pc = "Failed"
           /\ ret.msg = "failed to write updated coder binary to disk"
           /\ ~Called("Rename")

(***************************************************************************)
(* C20: Run stages into a freshly created file: in every run, successful   *)
(* or failed, no filesystem entry that existed before the run, other than  *)
(* the file at the executable path, is truncated, overwritten, renamed or  *)
(* removed; in particular not a file already at <executablePath>.new.      *)
(***************************************************************************)
C20_OtherFilesUntouched ==
    \A p \in Paths \ {executablePath} : fs0[p].exists => fs[p] = fs0[p]

(***************************************************************************)
(* C21: when the running version string is no semantic version, Run does   *)
(* not fail on it and does not take the no-op exit: for every valid        *)
(* desired version it goes on to confirmation and fetch, as it does when   *)
(* the versions differ.                                                    *)
(***************************************************************************)
RunningUnparseable == ~Make(runningVersion).ok

\* the failures of the steps up to the comparison
EarlyFailures ==
    {"preflight: cannot stat current binary",
     "preflight: missing write permission on current binary",
     "fetch api version", "coder reported invalid version",
     "invalid version argument provided"}

\* with an unparseable running version there is no no-op exit, and a run
\* whose desired version was resolved fails only at the confirmation or later
C21_NoNoOpExit ==
    RunningUnparseable
        => /\ pc # "NoOpDone"
           /\ desiredVersion.ok /\ pc = "Failed"
                => ret.msg \notin EarlyFailures /\ (Called("confirm") \/ Called("Get"))

\* the comparison step of such a run goes to the confirmation, without error
C21_CompareProceeds ==
    pc = "CompareVersion" /\ RunningUnparseable
        => pc' = "Confirm" /\ ret' = ret /\ calls' = calls

C21_UnparseableRunningProceeds == []C21_NoNoOpExit /\ [][C21_CompareProceeds]_vars

\* a run over an unparseable running version has fetched a release
C21_Witness ==
    /\ RunningUnparseable
    /\ desiredVersion.ok
    /\ Called("Get")

(***************************************************************************)
(* C22: the staging file of a run is exclusively owned by that run: when   *)
(* two runs against the same executable path interleave, neither creates,  *)
(* truncates, writes or renames the other's staging file, so after both    *)
(* have finished the file at the executable path holds the complete binary *)
(* of exactly one run, never an empty, truncated or mixed content.         *)
(***************************************************************************)
BothFinished == \A r \in Runs : run[r].pc \in {"Done", "Failed"}

\* the content of the file at the executable path
Installed == inodes[dir[executablePath]]

C22_StagingExclusivelyOwned ==
    /\ \A r, s \in Runs : r # s /\ run[r].fd # 0 => run[r].fd # run[s].fd
    /\ BothFinished => \E r \in Runs : Installed = run[r].bin

(***************************************************************************)
(* C23: when the caller's context is cancelled while the HTTP fetch is     *)
(* outstanding, the fetch is aborted and the run ends in failure without   *)
(* creating a staging file; when the cancellation arrives after the        *)
(* staging write has begun, the staging write and the rename still run to  *)
(* completion.                                                             *)
(***************************************************************************)
\* the failures of the staging steps that the filesystem, not ctx, causes
StagingFailures ==
    {"failed to write updated coder binary to disk",
     "failed to update coder binary in-place"}

C23_CancelAbortsFetchOnly ==
    /\ ctxDone = "Fetch"
        => /\ pc \in {"Fetch", "Failed"}
           /\ ~Called("extractFromArchive")
           /\ ~Called("OpenFile")
    /\ ctxDone \in {"StageWrite", "AtomicReplace"} /\ pc = "Failed"
        => ret.msg \in StagingFailures

(***************************************************************************)
(* C24: in the gzip-tar path the content of the first regular entry, in    *)
(* stream order, whose name matches is returned and the scan stops there:  *)
(* what follows the match (a second entry of the same name, a malformed or *)
(* truncated tail) does not change the result and causes no error.         *)
(***************************************************************************)
\* the archive cut off right after its entry number n
CutAfter(archive, n) == [archive EXCEPT !.items = SubSeq(@, 1, n)]

\* Run has extracted from a gzip-tar archive with something after the match
C24_TarWithTail ==
    /\ C12_TarWithRegular
    /\ Len(downloadBuf.items) > Min(RegularEntries(downloadBuf, "coder"))

C24_FirstMatchStopsScan ==
    C12_TarWithRegular
        => LET first == Min(RegularEntries(downloadBuf, "coder"))
               r == extractFromArchive("coder", CutAfter(downloadBuf, first))
           IN /\ r.err = NoErr
              /\ r.bytes = downloadBuf.items[first].content
              /\ ~ExtractFailed
              /\ pc # "Extract" => updatedBinary = r.bytes

\* the entry before a malformed tail has been extracted
C24_Witness ==
    /\ C24_TarWithTail
    /\ downloadBuf.items[Len(downloadBuf.items)].typ = "bad"
    /\ pc = "StageCreate"
    /\ updatedBinary # <<>>

(***************************************************************************)
(* C25: every resource Run acquires is released before it returns, on      *)
(* every exit path: the response body of a successful Get is closed also   *)
(* when the status is not 200 or the copy of the body fails, and the       *)
(* staging file handle is closed on success and on write or rename         *)
(* failure.                                                                *)
(***************************************************************************)
C25_ResourcesReleased ==
    Terminated => ~respBodyOpen /\ ~updatedBinOpen

(***************************************************************************)
(* C26: provided the remote reporter, the confirmation and the HTTP getter *)
(* each return, every run eventually reaches exactly one terminal outcome  *)
(* (update done, no-op done or failed) and takes no step after it.         *)
(***************************************************************************)
\* what Run returned agrees with the outcome, and there is one outcome
C26_OneOutcome ==
    /\ Terminated <=> ret # Running
    /\ pc \in {"Done", "NoOpDone"} <=> ret = Nil

\* every step is taken by a run that has not returned
C26_NoStepAfterReturn == ~Terminated

C26_RunTerminates ==
    /\ <>Terminated
    /\ []C26_OneOutcome
    /\ [][C26_NoStepAfterReturn]_vars

\* a run has returned after the rename
C26_Witness ==
    /\ pc = "Done"
    /\ ret = Nil
    /\ Called("Rename")

====
